---- MODULE Spec2Model ----
(***************************************************************************)
(* Model of examples/vector_databases/                                     *)
(* Using_vector_databases_for_embeddings_search.ipynb:                     *)
(*   - BatchGenerator (to_batches, splits_num), the table splitter used    *)
(*     by the upload loops;                                                *)
(*   - embed_corpus / batchify / get_embeddings, the embedding pipeline    *)
(*     run on a ThreadPoolExecutor.                                        *)
(***************************************************************************)
EXTENDS Integers, Sequences, FiniteSets, TLC

(* ------------------------------------------------------------------ *)
(* Bounds of the model                                                *)
(* ------------------------------------------------------------------ *)
MaxRows == 7
MaxBatchSize == 4
MaxDocs == 3
MaxEmbedBatch == 2
MaxWorkers == 2
MaxContextLen == 2

(* Program constants of the notebook's recorded run *)
DatasetRows == 25000
DfBatcherSize == 300

VARIABLES
    df,              \* BatchGenerator: the table handed to to_batches (a frame)
    self_batch_size, \* BatchGenerator: self.batch_size
    bpc,             \* to_batches generator: "created" | "suspended" | "done"
    sections,        \* to_batches generator: the chunks still to be yielded
    yielded,         \* consumer: the chunks received so far, in order
    corpus,          \* embed_corpus: the input strings
    batch_size,      \* embed_corpus: batch_size argument
    num_workers,     \* embed_corpus: num_workers argument
    max_context_len, \* embed_corpus: max_context_len argument
    pc,              \* embed_corpus: the caller's position in the function
    encoded_corpus,  \* embed_corpus: the truncated token sequences
    printed,         \* embed_corpus: the statistics lines printed so far
    futures,         \* embed_corpus: the futures list, in submission order
    work_queue,      \* ThreadPoolExecutor: submitted work items not yet taken
    threads,         \* ThreadPoolExecutor: number of worker threads spawned
    idle_semaphore,  \* ThreadPoolExecutor: its idle-worker semaphore
    completed,       \* as_completed: the futures yielded so far, in order
    pbar,            \* tqdm: the progress count n
    embeddings,      \* embed_corpus: the local result list
    nxt,             \* embed_corpus: position of the result loop in futures
    pending_error,   \* embed_corpus: the exception propagating out, or None
    ret,             \* caller: the list embed_corpus returned, or None
    error,           \* caller: the exception embed_corpus raised, or None
    index,           \* Pinecone index: the upsert requests received, per namespace
    cell             \* upload cells: the notebook cell being run

batchVars == <<df, self_batch_size, bpc, sections, yielded>>

embedVars == <<corpus, batch_size, num_workers, max_context_len, pc,
               encoded_corpus, printed, futures, work_queue, threads,
               idle_semaphore, completed, pbar, embeddings, nxt,
               pending_error, ret, error>>

uploadVars == <<index, cell>>

vars == <<batchVars, embedVars, uploadVars>>

(* ------------------------------------------------------------------ *)
(* BatchGenerator                                                     *)
(* ------------------------------------------------------------------ *)

\* Python 3 round(n / b) for integers n >= 0, b >= 1: nearest integer,
\* a tie (fraction exactly 1/2) goes to the even neighbour.
py_round_div(n, b) ==
    LET q == n \div b
        r == n % b
    IN  IF 2 * r < b THEN q
        ELSE IF 2 * r > b THEN q + 1
        ELSE IF q % 2 = 0 THEN q ELSE q + 1

\* mutant: the chunk count rounded up instead of to nearest
splits_num_ceil(elements, size) ==
    (elements + size - 1) \div size

\* BatchGenerator.splits_num
splits_num(elements, size) ==
    py_round_div(elements, size)

\* A frame (a DataFrame or a slice of one) is the run of rows at positions
\* start, ..., stop - 1 of the row index; a row is identified by its position.
Frame(start, stop) == [start |-> start, stop |-> stop]

\* df.shape[0]
nrows(frame) == frame.stop - frame.start

\* The rows of a frame, in order.
rows(frame) == [i \in 1..nrows(frame) |-> frame.start + i - 1]

\* ary[st:end] of a frame
slice(ary, st, end) == Frame(ary.start + st, ary.start + end)

\* mutant: the remainder rows of the uneven division are dropped
array_split_even(ary, k) ==
    LET each == nrows(ary) \div k
    IN  [i \in 1..k |-> slice(ary, (i - 1) * each, i * each)]

\* mutant: k - 1 sections of nrows \div k rows, the last one taking the
\* remainder as well
array_split_last_absorbs(ary, k) ==
    LET each == nrows(ary) \div k
    IN  [i \in 1..k |->
            slice(ary, (i - 1) * each, IF i = k THEN nrows(ary) ELSE i * each)]

\* numpy.array_split(ary, k) for k >= 1: k contiguous sections ary[st:end]
\* between the division points, the first nrows % k of them one row longer
\* than the others.
array_split(ary, k) ==
    LET each == nrows(ary) \div k
        extras == nrows(ary) % k
        div_point(i) == IF i <= extras
                        THEN i * (each + 1)
                        ELSE extras * (each + 1) + (i - extras) * each
    IN  [i \in 1..k |-> slice(ary, div_point(i - 1), div_point(i))]

\* mutant: no special case for a computed chunk count of 0 or 1
\* (splitting into 0 sections produces nothing)
to_batches_nospecial(table, size) ==
    LET splits == splits_num(nrows(table), size)
    IN  IF splits = 0 THEN <<>> ELSE array_split(table, splits)

\* BatchGenerator.to_batches: the chunks it yields, in order
to_batches(table, size) ==
    LET splits == splits_num(nrows(table), size)
    IN  IF splits <= 1 THEN <<table>> ELSE array_split(table, splits)

\* A table of n rows.
Table(n) == Frame(0, n)

\* The tables and batch sizes explored: every small table with every small
\* batch size, and the notebook's df_batcher = BatchGenerator(300) on the
\* 25000-row article_df.
BatchInputs ==
    ((0..MaxRows) \X (1..MaxBatchSize)) \cup {<<DatasetRows, DfBatcherSize>>}

\* No exception (the exceptions of the model are records of this shape).
NoException == [kind |-> "none", request |-> 0]

\* An optional value: <<>> for None, <<v>> for the value v.
Nothing == <<>>
Some(v) == <<v>>

\* A future's service script before its request has been answered.
NoScript == "unanswered"

\* embed_corpus has not been called
EmbedNotCalled ==
    /\ corpus = <<>>
    /\ batch_size = 1
    /\ num_workers = 1
    /\ max_context_len = 0
    /\ pc = "not_called"
    /\ encoded_corpus = <<>>
    /\ printed = <<>>
    /\ futures = <<>>
    /\ work_queue = <<>>
    /\ threads = 0
    /\ idle_semaphore = 0
    /\ completed = <<>>
    /\ pbar = 0
    /\ embeddings = <<>>
    /\ nxt = 1
    /\ pending_error = NoException
    /\ ret = Nothing
    /\ error = NoException

\* The upload cells have not been run: the index is newly created.
UploadNotStarted ==
    /\ index = [content |-> <<>>, title |-> <<>>]
    /\ cell = "not_run"

InitBatch ==
    /\ UploadNotStarted
    /\ \E in \in BatchInputs :
          /\ df = Table(in[1])
          /\ self_batch_size = in[2]
    /\ bpc = "created"
    /\ sections = <<>>
    /\ yielded = <<>>
    /\ EmbedNotCalled

\* First next() on the generator: the body runs up to its first yield.
ToBatchesFirst ==
    /\ bpc = "created"
    /\ LET chunks == to_batches(df, self_batch_size)
       IN  IF chunks = <<>>
           THEN /\ bpc' = "done"
                /\ UNCHANGED <<sections, yielded>>
           ELSE /\ yielded' = Append(yielded, Head(chunks))
                /\ sections' = Tail(chunks)
                /\ bpc' = "suspended"
    /\ UNCHANGED <<df, self_batch_size>>
    /\ UNCHANGED embedVars

\* A later next(): the loop over the split yields its next chunk.
ToBatchesYield ==
    /\ bpc = "suspended"
    /\ sections # <<>>
    /\ yielded' = Append(yielded, Head(sections))
    /\ sections' = Tail(sections)
    /\ UNCHANGED <<df, self_batch_size, bpc>>
    /\ UNCHANGED embedVars

\* A later next() with nothing left: the generator returns (StopIteration).
ToBatchesStop ==
    /\ bpc = "suspended"
    /\ sections = <<>>
    /\ bpc' = "done"
    /\ UNCHANGED <<df, self_batch_size, sections, yielded>>
    /\ UNCHANGED embedVars

NextBatch ==
    \/ ToBatchesFirst /\ UNCHANGED uploadVars
    \/ ToBatchesYield /\ UNCHANGED uploadVars
    \/ ToBatchesStop /\ UNCHANGED uploadVars

SpecBatch == InitBatch /\ [][NextBatch]_vars

(* ------------------------------------------------------------------ *)
(* The Pinecone upload cells                                          *)
(* ------------------------------------------------------------------ *)

\* article_df['vector_id']: the row's index label rendered as a string
vector_id(row) == [str |-> row]

\* A row's value in one of the vector columns of article_df.
column_value(column, row) == [column |-> column, row |-> row]

\* mutant: the title cell uploads the content vectors (copied cell)
upsert_request_content(batch_df, namespace) ==
    [namespace |-> namespace, frame |-> batch_df, column |-> "content_vector"]

\* index.upsert(vectors=zip(batch_df.vector_id, batch_df.<column>),
\*              namespace=...) as written in the cell of each namespace
upsert_request(batch_df, namespace) ==
    [namespace |-> namespace, frame |-> batch_df,
     column |-> IF namespace = "content" THEN "content_vector"
                ELSE "title_vector"]

\* The (id, vector) pair an upsert request carries for a row of its frame.
request_pair(request, row) ==
    <<vector_id(row), column_value(request.column, row)>>

\* describe_index_stats: the number of distinct ids stored in a namespace
vector_count(namespace) ==
    Cardinality(UNION { { vector_id(r) : r \in (req.frame.start)..(req.frame.stop - 1) } :
                        req \in { index[namespace][k] : k \in 1..Len(index[namespace]) } })

InitUpload ==
    /\ \E in \in BatchInputs :
          /\ df = Table(in[1])
          /\ self_batch_size = in[2]
    /\ bpc = "created"
    /\ sections = <<>>
    /\ yielded = <<>>
    /\ index = [content |-> <<>>, title |-> <<>>]
    /\ cell = "content"
    /\ EmbedNotCalled

\* One round of an upload loop: df_batcher(article_df) yields the next
\* chunk and the loop body upserts it into the cell's namespace.
UpsertBatch ==
    /\ cell \in {"content", "title"}
    /\ (ToBatchesFirst \/ ToBatchesYield)
    /\ index' = IF Len(yielded') > Len(yielded)
                THEN [index EXCEPT ![cell] =
                         Append(@, upsert_request(yielded'[Len(yielded')], cell))]
                ELSE index
    /\ UNCHANGED cell

\* The generator is exhausted: the upload loop of the cell ends.
UploadLoopEnds ==
    /\ cell \in {"content", "title"}
    /\ ToBatchesStop
    /\ UNCHANGED uploadVars

\* mutant: the title cell iterates the generator the content cell has
\* already consumed
StartTitleCell_consumed ==
    /\ cell = "content"
    /\ bpc = "done"
    /\ cell' = "title"
    /\ yielded' = <<>>
    /\ UNCHANGED <<df, self_batch_size, bpc, sections, index>>
    /\ UNCHANGED embedVars

\* The title cell starts: a fresh df_batcher(article_df) generator.
StartTitleCell ==
    /\ cell = "content"
    /\ bpc = "done"
    /\ cell' = "title"
    /\ bpc' = "created"
    /\ sections' = <<>>
    /\ yielded' = <<>>
    /\ UNCHANGED <<df, self_batch_size, index>>
    /\ UNCHANGED embedVars

\* Both loops have finished: the describe_index_stats cell runs.
DescribeIndexStats ==
    /\ cell = "title"
    /\ bpc = "done"
    /\ cell' = "stats"
    /\ UNCHANGED <<batchVars, index>>
    /\ UNCHANGED embedVars

NextUpload ==
    \/ UpsertBatch
    \/ UploadLoopEnds
    \/ StartTitleCell
    \/ DescribeIndexStats

SpecUpload == InitUpload /\ [][NextUpload]_vars

(* ------------------------------------------------------------------ *)
(* embed_corpus, batchify, get_embeddings                             *)
(* ------------------------------------------------------------------ *)

\* The texts the corpus is drawn from (strings as character sequences).
Texts == { <<"a", "b">>, <<"b", "a", "a", "b">> }

\* The corpora explored: up to MaxDocs texts, neighbouring texts different
\* (so that a vector at the wrong position shows).
Corpora ==
    { c \in UNION { [1..n -> Texts] : n \in 0..MaxDocs } :
        \A i \in 1..(Len(c) - 1) : c[i] # c[i + 1] }

\* encoding.encode: a deterministic tokenizer over the vocabulary
\* 1 = "a", 2 = "b", 3 = "ab" (the merged pair), longest match first.
RECURSIVE encode(_)
encode(text) ==
    IF text = <<>> THEN <<>>
    ELSE IF Len(text) >= 2 /\ text[1] = "a" /\ text[2] = "b"
         THEN <<3>> \o encode(SubSeq(text, 3, Len(text)))
         ELSE <<IF text[1] = "a" THEN 1 ELSE 2>> \o encode(Tail(text))

\* mutant: the slice keeps the trailing tokens instead of the leading ones
truncate_tail(tokens, limit) ==
    SubSeq(tokens, (IF limit < Len(tokens) THEN Len(tokens) - limit ELSE 0) + 1,
           Len(tokens))

\* encoded_article[:max_context_len] for max_context_len >= 0
truncate(tokens, limit) ==
    SubSeq(tokens, 1, IF limit < Len(tokens) THEN limit ELSE Len(tokens))

\* mutant: the final, shorter slice is never yielded
batchify_drop_partial(iterable, n) ==
    [k \in 1..(Len(iterable) \div n) |->
        SubSeq(iterable, (k - 1) * n + 1, k * n)]

\* batchify(iterable, n): the slices it yields, in order
batchify(iterable, n) ==
    LET l == Len(iterable)
    IN  [k \in 1..((l + n - 1) \div n) |->
            SubSeq(iterable, (k - 1) * n + 1,
                   IF k * n < l THEN k * n ELSE l)]

\* The vector the embedding service produces for one token sequence.
Embedding(tokens) == [embedding_of |-> tokens]

\* How the embedding service treats the requests of one batch: it answers
\* the first attempt, or fails twice with a transient error and answers the
\* third attempt, or fails every attempt.
ServiceScripts == {"ok", "twice_then_ok", "always_fails"}

\* The service's answer to the attempt-th request of a batch.
ServiceAttempt(script, attempt) ==
    IF script = "always_fails" THEN "permanent_error"
    ELSE IF script = "twice_then_ok" /\ attempt <= 2 THEN "transient_error"
    ELSE "ok"

\* get_embeddings(input): one call of openai.Embedding.create, no retry;
\* the embeddings of the response in response order, or the call's error.
get_embeddings(input, script) ==
    LET answer == ServiceAttempt(script, 1)
    IN  IF answer = "ok"
        THEN [ok |-> TRUE,
              data |-> [i \in 1..Len(input) |-> Embedding(input[i])]]
        ELSE [ok |-> FALSE, raised |-> answer]

\* mutant: the executor never starts a worker thread
may_spawn_never(num_threads, max_workers) == FALSE

\* mutant: the executor starts a thread for every submitted item
may_spawn_unbounded(num_threads, max_workers) == TRUE

\* ThreadPoolExecutor._adjust_thread_count: a new worker thread may start
may_spawn(num_threads, max_workers) == num_threads < max_workers

\* mutant: a request that has merely started counts as finished
is_finished_started(f) == f.state # "pending"

\* Future.done(): the request has completed or failed
is_finished(f) == f.state \in {"done", "failed"}

\* mutant: a failed request contributes nothing instead of raising
future_result_swallow(f) == [raises |-> FALSE, data |-> f.result]

\* future.result() of a finished future
future_result(f) ==
    IF f.state = "failed"
    THEN [raises |-> TRUE, exception |-> f.exception]
    ELSE [raises |-> FALSE, data |-> f.result]

\* mutant: the result loop walks the futures in completion order
nth_completed(fs, done_order, i) == fs[done_order[i]]

\* for future in futures: the i-th future of the result loop
nth_future(fs, done_order, i) == fs[i]

\* mutant: only the first article's tokens are counted
SumLen_first(ss) == IF ss = <<>> THEN 0 ELSE Len(Head(ss))

RECURSIVE SumLen(_)
SumLen(ss) == IF ss = <<>> THEN 0 ELSE Len(Head(ss)) + SumLen(Tail(ss))

Running == {b \in 1..Len(futures) : futures[b].state = "running"}

\* to_batches has not been called
BatchNotCreated ==
    /\ df = Table(0)
    /\ self_batch_size = DfBatcherSize
    /\ bpc = "not_created"
    /\ sections = <<>>
    /\ yielded = <<>>

InitEmbed ==
    /\ corpus \in Corpora
    /\ batch_size \in 1..MaxEmbedBatch
    /\ num_workers \in 1..MaxWorkers
    /\ max_context_len \in 0..MaxContextLen
    /\ pc = "encode"
    /\ encoded_corpus = <<>>
    /\ printed = <<>>
    /\ futures = <<>>
    /\ work_queue = <<>>
    /\ threads = 0
    /\ idle_semaphore = 0
    /\ completed = <<>>
    /\ pbar = 0
    /\ embeddings = <<>>
    /\ nxt = 1
    /\ pending_error = NoException
    /\ ret = Nothing
    /\ error = NoException
    /\ BatchNotCreated
    /\ UploadNotStarted

\* Encode the corpus, truncating to max_context_len.
EncodeCorpus ==
    /\ pc = "encode"
    /\ encoded_corpus' =
          [i \in 1..Len(corpus) |-> truncate(encode(corpus[i]), max_context_len)]
    /\ pc' = "stats"
    /\ UNCHANGED <<corpus, batch_size, num_workers, max_context_len, printed,
                   futures, work_queue, threads, idle_semaphore, completed,
                   pbar, embeddings, nxt, pending_error, ret, error>>
    /\ UNCHANGED <<batchVars, uploadVars>>

\* Corpus statistics: number of inputs, total tokens, estimated cost
\* (num_tokens / 1000 * 0.0004 USD, kept in units of 1e-7 USD).
PrintStats ==
    /\ pc = "stats"
    /\ LET num_tokens == SumLen(encoded_corpus)
       IN  printed' = Append(printed,
                             [num_articles |-> Len(encoded_corpus),
                              num_tokens |-> num_tokens,
                              cost_e7 |-> num_tokens * 4])
    /\ pc' = "submit"
    /\ UNCHANGED <<corpus, batch_size, num_workers, max_context_len,
                   encoded_corpus, futures, work_queue, threads,
                   idle_semaphore, completed, pbar, embeddings, nxt,
                   pending_error, ret, error>>
    /\ UNCHANGED <<batchVars, uploadVars>>

\* One round of the list comprehension: the next slice of batchify is
\* submitted to the executor, which queues it and adjusts its thread count.
Submit ==
    /\ pc = "submit"
    /\ LET batches == batchify(encoded_corpus, batch_size)
           k == Len(futures) + 1
       IN  /\ k <= Len(batches)
           /\ futures' = Append(futures,
                                [batch |-> batches[k], state |-> "pending",
                                 result |-> <<>>, exception |-> NoException,
                                 script |-> NoScript])
           /\ work_queue' = Append(work_queue, k)
    /\ IF idle_semaphore > 0
       THEN /\ idle_semaphore' = idle_semaphore - 1
            /\ UNCHANGED threads
       ELSE /\ threads' = IF may_spawn(threads, num_workers)
                          THEN threads + 1 ELSE threads
            /\ UNCHANGED idle_semaphore
    /\ UNCHANGED <<corpus, batch_size, num_workers, max_context_len, pc,
                   encoded_corpus, printed, completed, pbar, embeddings, nxt,
                   pending_error, ret, error>>
    /\ UNCHANGED <<batchVars, uploadVars>>

\* batchify is exhausted: the futures list is built, the progress bar opens.
SubmitDone ==
    /\ pc = "submit"
    /\ Len(futures) = Len(batchify(encoded_corpus, batch_size))
    /\ pc' = "progress"
    /\ UNCHANGED <<corpus, batch_size, num_workers, max_context_len,
                   encoded_corpus, printed, futures, work_queue, threads,
                   idle_semaphore, completed, pbar, embeddings, nxt,
                   pending_error, ret, error>>
    /\ UNCHANGED <<batchVars, uploadVars>>

\* An idle worker thread takes the oldest queued work item and sends its
\* request.
WorkerStart ==
    /\ work_queue # <<>>
    /\ Cardinality(Running) < threads
    /\ futures' = [futures EXCEPT ![Head(work_queue)].state = "running"]
    /\ work_queue' = Tail(work_queue)
    /\ UNCHANGED <<corpus, batch_size, num_workers, max_context_len, pc,
                   encoded_corpus, printed, threads, idle_semaphore, completed,
                   pbar, embeddings, nxt, pending_error, ret, error>>
    /\ UNCHANGED <<batchVars, uploadVars>>

\* get_embeddings returns or raises in a worker thread; the future takes
\* the result or the exception and the worker reports itself idle.
WorkerFinish(b) ==
    /\ futures[b].state = "running"
    /\ \E script \in ServiceScripts :
          LET r == get_embeddings(futures[b].batch, script)
          IN  futures' =
                 [futures EXCEPT ![b] =
                    IF r.ok
                    THEN [@ EXCEPT !.state = "done", !.result = r.data,
                                   !.script = script]
                    ELSE [@ EXCEPT !.state = "failed",
                                   !.exception = [kind |-> r.raised,
                                                  request |-> b],
                                   !.script = script]]
    /\ idle_semaphore' = idle_semaphore + 1
    /\ UNCHANGED <<corpus, batch_size, num_workers, max_context_len, pc,
                   encoded_corpus, printed, work_queue, threads, completed,
                   pbar, embeddings, nxt, pending_error, ret, error>>
    /\ UNCHANGED <<batchVars, uploadVars>>

\* as_completed yields a finished future it has not yielded yet and the
\* loop body advances the progress bar.
AsCompletedYield(b) ==
    /\ pc = "progress"
    /\ is_finished(futures[b])
    /\ \A i \in 1..Len(completed) : completed[i] # b
    /\ completed' = Append(completed, b)
    /\ pbar' = pbar + batch_size
    /\ UNCHANGED <<corpus, batch_size, num_workers, max_context_len, pc,
                   encoded_corpus, printed, futures, work_queue, threads,
                   idle_semaphore, embeddings, nxt, pending_error, ret, error>>
    /\ UNCHANGED <<batchVars, uploadVars>>

\* as_completed has yielded every future: the progress loop ends.
AsCompletedStop ==
    /\ pc = "progress"
    /\ Len(completed) = Len(futures)
    /\ pc' = "collect"
    /\ UNCHANGED <<corpus, batch_size, num_workers, max_context_len,
                   encoded_corpus, printed, futures, work_queue, threads,
                   idle_semaphore, completed, pbar, embeddings, nxt,
                   pending_error, ret, error>>
    /\ UNCHANGED <<batchVars, uploadVars>>

\* One round of the result loop: future.result() waits for the future, then
\* its data extends embeddings or its exception leaves the function.
CollectResult ==
    /\ pc = "collect"
    /\ nxt <= Len(futures)
    /\ LET future == nth_future(futures, completed, nxt)
       IN  /\ is_finished(future)
           /\ LET r == future_result(future)
              IN  IF r.raises
                  THEN /\ pending_error' = r.exception
                       /\ pc' = "shutdown"
                       /\ UNCHANGED <<embeddings, nxt>>
                  ELSE /\ embeddings' = embeddings \o r.data
                       /\ nxt' = nxt + 1
                       /\ UNCHANGED <<pending_error, pc>>
    /\ UNCHANGED <<corpus, batch_size, num_workers, max_context_len,
                   encoded_corpus, printed, futures, work_queue, threads,
                   idle_semaphore, completed, pbar, ret, error>>
    /\ UNCHANGED <<batchVars, uploadVars>>

\* return embeddings: control leaves the with block.
ReturnEmbeddings ==
    /\ pc = "collect"
    /\ nxt > Len(futures)
    /\ pc' = "shutdown"
    /\ UNCHANGED <<corpus, batch_size, num_workers, max_context_len,
                   encoded_corpus, printed, futures, work_queue, threads,
                   idle_semaphore, completed, pbar, embeddings, nxt,
                   pending_error, ret, error>>
    /\ UNCHANGED <<batchVars, uploadVars>>

\* The executor's __exit__: shutdown(wait=True) joins the worker threads,
\* then the caller receives the returned list or the exception.
ExecutorExit ==
    /\ pc = "shutdown"
    /\ work_queue = <<>>
    /\ \A b \in 1..Len(futures) : is_finished(futures[b])
    /\ IF pending_error = NoException
       THEN /\ ret' = Some(embeddings)
            /\ pc' = "returned"
            /\ UNCHANGED error
       ELSE /\ error' = pending_error
            /\ pc' = "raised"
            /\ UNCHANGED ret
    /\ UNCHANGED <<corpus, batch_size, num_workers, max_context_len,
                   encoded_corpus, printed, futures, work_queue, threads,
                   idle_semaphore, completed, pbar, embeddings, nxt,
                   pending_error>>
    /\ UNCHANGED <<batchVars, uploadVars>>

NextEmbed ==
    \/ EncodeCorpus
    \/ PrintStats
    \/ Submit
    \/ SubmitDone
    \/ WorkerStart
    \/ \E b \in 1..Len(futures) : WorkerFinish(b)
    \/ \E b \in 1..Len(futures) : AsCompletedYield(b)
    \/ AsCompletedStop
    \/ CollectResult
    \/ ReturnEmbeddings
    \/ ExecutorExit

SpecEmbed == InitEmbed /\ [][NextEmbed]_vars

\* The steps of the thread that called embed_corpus.
CallerStep ==
    \/ EncodeCorpus
    \/ PrintStats
    \/ Submit
    \/ SubmitDone
    \/ \E b \in 1..Len(futures) : AsCompletedYield(b)
    \/ AsCompletedStop
    \/ CollectResult
    \/ ReturnEmbeddings
    \/ ExecutorExit

\* embed_corpus under fair scheduling: the calling thread keeps running
\* while it can, an idle worker thread eventually takes queued work, and
\* every request in flight eventually completes or fails.
\* Scheduling does not depend on what the texts hold: the runs explored
\* for termination take one corpus of each size and one context length.
InitEmbedFair ==
    /\ InitEmbed
    /\ max_context_len = MaxContextLen
    /\ (corpus = <<>> \/ corpus[1] = <<"a", "b">>)

FairSpecEmbed ==
    /\ InitEmbedFair
    /\ [][NextEmbed]_vars
    /\ WF_vars(CallerStep)
    /\ WF_vars(WorkerStart)
    /\ WF_vars(\E b \in 1..Len(futures) : WorkerFinish(b))

(* ------------------------------------------------------------------ *)
(* Helpers for the properties                                         *)
(* ------------------------------------------------------------------ *)
RECURSIVE Flatten(_)
Flatten(ss) == IF ss = <<>> THEN <<>> ELSE Head(ss) \o Flatten(Tail(ss))

IsPrefix(s, t) == Len(s) <= Len(t) /\ s = SubSeq(t, 1, Len(s))

(* ------------------------------------------------------------------ *)
(* Properties of BatchGenerator                                       *)
(* ------------------------------------------------------------------ *)
NoEmptyChunk == \A i \in 1..Len(yielded) : rows(yielded[i]) # <<>>

\* The rows of the chunks received so far, concatenated in the order yielded.
YieldedRows == Flatten([i \in 1..Len(yielded) |-> rows(yielded[i])])

\* C2: the chunks yielded by to_batches, concatenated in the order yielded,
\* are at every moment a prefix of the table and, once the generator is
\* exhausted, the whole table (every row once, in order); no yielded chunk
\* is empty unless the table is empty.
C2_ChunksConcatToTable ==
    /\ IsPrefix(YieldedRows, rows(df))
    /\ (bpc = "done" => YieldedRows = rows(df))
    /\ (nrows(df) > 0 => NoEmptyChunk)

\* C2 witness: an exhausted split of a table into several chunks of
\* unequal sizes.
C2_Witness ==
    /\ bpc = "done"
    /\ Len(yielded) >= 2
    /\ nrows(df) % Len(yielded) # 0
    /\ nrows(df) <= MaxRows

\* C7 (as claimed): every chunk yielded by a generator configured with
\* batch size B holds at most B rows.
C7_ChunkWithinBatchSize ==
    \A i \in 1..Len(yielded) : nrows(yielded[i]) <= self_batch_size

DemoRun == nrows(df) = DatasetRows /\ self_batch_size = DfBatcherSize

C9_AtLeastOneChunk ==
    bpc = "done" =>
        /\ Len(yielded) >= 1
        /\ (splits_num(nrows(df), self_batch_size) <= 1 => yielded = <<df>>)

\* C9 witness: a non-empty table whose computed chunk count is 0 was
\* yielded whole.
C9_Witness ==
    /\ bpc = "done"
    /\ nrows(df) > 0
    /\ splits_num(nrows(df), self_batch_size) = 0
    /\ yielded = <<df>>

(* ------------------------------------------------------------------ *)
(* Properties of embed_corpus                                         *)
(* ------------------------------------------------------------------ *)

\* The vector the embedding service produces for input string i: the
\* embedding of the token sequence sent for it.
ExpectedEmbeddings ==
    [i \in 1..Len(corpus) |->
        Embedding(truncate(encode(corpus[i]), max_context_len))]

SomeFailed == \E b \in 1..Len(futures) : futures[b].state = "failed"

CallerReleased == pc \in {"returned", "raised"}

\* C1: a successful embed_corpus call returns exactly one vector per input
\* string, the vector at position i being the one the service produced for
\* input string i, whatever the batch size, the number of workers and the
\* order in which the requests completed.
C1_OutputInInputOrder ==
    pc = "returned" => ret = Some(ExpectedEmbeddings)

\* C1 witness: a call returned after its requests completed out of
\* submission order, with different vectors at different positions.
C1_Witness ==
    /\ pc = "returned"
    /\ Len(futures) >= 2
    /\ completed[1] # 1
    /\ Len(corpus) >= 2
    /\ ExpectedEmbeddings[1] # ExpectedEmbeddings[2]

\* C3 (as claimed): when every failure the service gives is transient and
\* lasts at most two attempts per batch (the third attempt succeeds),
\* embed_corpus returns normally with the correct vectors at their original
\* positions.
C3_TransientFailureRetried ==
    ( /\ CallerReleased
      /\ \A b \in 1..Len(futures) : futures[b].script \in {"ok", "twice_then_ok"} )
    => ( pc = "returned" /\ ret = Some(ExpectedEmbeddings) )

\* C4: once the request of some batch has failed, embed_corpus returns no
\* list at all; when the caller is released it is by the raised exception
\* of a failed request.
C4_FailureRaisesNoPartialList ==
    SomeFailed =>
        /\ ret = Nothing
        /\ pc # "returned"
        /\ (pc = "raised" =>
               \E b \in 1..Len(futures) :
                  /\ futures[b].state = "failed"
                  /\ error = futures[b].exception)

\* C4 witness: the call raised although another batch's request, completed
\* before or after the failed one, had succeeded.
C4_Witness ==
    /\ pc = "raised"
    /\ \E b \in 1..Len(futures) : futures[b].state = "done"
    /\ \E i \in 2..Len(completed) : futures[completed[i]].state = "failed"
    /\ embeddings # <<>>

\* C5: the number of requests in flight (started, neither completed nor
\* failed) never exceeds num_workers.
C5_InFlightAtMostNumWorkers ==
    Cardinality(Running) <= num_workers

\* C5 witness: num_workers requests are in flight while further submitted
\* batches wait in the queue.
C5_Witness ==
    /\ Cardinality(Running) = num_workers
    /\ work_queue # <<>>
    /\ Len(futures) > num_workers

\* The corpus position of item j of batch b.
CorpusIndex(b, j) == (b - 1) * batch_size + j

TruncationOf(sent, text) ==
    LET full == encode(text)
    IN  /\ Len(sent) <= max_context_len
        /\ IsPrefix(sent, full)
        /\ (Len(full) <= max_context_len => sent = full)

\* C6: every token sequence embed_corpus holds or sends for a text has at
\* most max_context_len tokens, is a prefix of the text's full tokenization,
\* and is the full tokenization when that has at most max_context_len
\* tokens; truncation raises nothing (an exception reaches the caller only
\* from a failed request).
C6_TruncationKeepsPrefix ==
    /\ \A i \in 1..Len(encoded_corpus) :
          TruncationOf(encoded_corpus[i], corpus[i])
    /\ \A b \in 1..Len(futures) :
          \A j \in 1..Len(futures[b].batch) :
             TruncationOf(futures[b].batch[j], corpus[CorpusIndex(b, j)])
    /\ (pending_error # NoException => SomeFailed)

\* C6 witness: a request has been sent that carries a text cut short to a
\* non-empty prefix and a text that fits whole.
C6_Witness ==
    \E b \in 1..Len(futures) :
        /\ futures[b].state # "pending"
        /\ \E j \in 1..Len(futures[b].batch) :
              LET sent == futures[b].batch[j]
              IN  /\ sent # <<>>
                  /\ Len(sent) < Len(encode(corpus[CorpusIndex(b, j)]))
        /\ \E j \in 1..Len(futures[b].batch) :
              futures[b].batch[j] = encode(corpus[CorpusIndex(b, j)])

\* C10: when embed_corpus has returned or raised, every batch has been
\* dispatched and no request is queued or in flight: each has completed or
\* failed.
C10_ReleasedOnlyWhenAllFinished ==
    CallerReleased =>
        /\ Len(futures) = Len(batchify(encoded_corpus, batch_size))
        /\ work_queue = <<>>
        /\ \A b \in 1..Len(futures) : futures[b].state \in {"done", "failed"}

\* C10 witness: the call raised after a request had failed while sibling
\* requests went on to complete.
C10_Witness ==
    /\ pc = "raised"
    /\ Len(futures) >= 3
    /\ futures[completed[1]].state = "failed"
    /\ futures[completed[Len(completed)]].state = "done"

\* The token sequences of the batches dispatched so far, in dispatch order.
DispatchedItems == Flatten([b \in 1..Len(futures) |-> futures[b].batch])

\* C11: the batches embed_corpus dispatches are formed in input order as
\* contiguous, non-overlapping runs of the truncated corpus (dispatched so
\* far: a prefix of it; once dispatch has ended: all of it, every input
\* once), none empty and none longer than batch_size.
C11_BatchesPartitionCorpus ==
    /\ IsPrefix(DispatchedItems, encoded_corpus)
    /\ \A b \in 1..Len(futures) :
          /\ futures[b].batch # <<>>
          /\ Len(futures[b].batch) <= batch_size
          /\ futures[b].batch =
                SubSeq(encoded_corpus, CorpusIndex(b, 1),
                       CorpusIndex(b, Len(futures[b].batch)))
    /\ (pc \in {"progress", "collect", "shutdown", "returned", "raised"}
           => DispatchedItems = encoded_corpus)

\* C11 witness: dispatch has ended with several batches, the last of them
\* shorter than batch_size.
C11_Witness ==
    /\ pc = "progress"
    /\ Len(futures) >= 2
    /\ Len(futures[Len(futures)].batch) < batch_size
    /\ encoded_corpus[1] # encoded_corpus[2]

\* The statistics line embed_corpus prints for the whole truncated corpus.
CorpusReport ==
    LET num_tokens == Len(Flatten(encoded_corpus))
    IN  [num_articles |-> Len(corpus),
         num_tokens |-> num_tokens,
         cost_e7 |-> 4 * num_tokens]

\* C12: the token total and cost estimate, taken over the whole truncated
\* corpus, have been printed (once) before any batch is submitted, and the
\* step that prints them always goes on to dispatch: it is always possible
\* and always leads to the submission loop.
C12_StatsBeforeDispatch ==
    /\ [](futures # <<>> => printed = <<CorpusReport>>)
    /\ [](pc \in {"submit", "progress", "collect", "shutdown", "returned",
                  "raised"} => printed = <<CorpusReport>>)
    /\ [](pc = "stats" => ENABLED PrintStats)
    /\ [][pc = "stats" => pc' = "submit"]_vars

\* C12 witness: a request is in flight for a corpus of several texts, one
\* of them truncated, after the statistics were printed.
C12_Witness ==
    /\ printed # <<>>
    /\ Running # {}
    /\ Len(corpus) >= 2
    /\ printed[1].num_tokens > 0
    /\ \E i \in 1..Len(corpus) : Len(encoded_corpus[i]) < Len(encode(corpus[i]))

\* C15: the progress count never decreases; it has been advanced once (by
\* batch_size) for each future as_completed has yielded, each future is
\* yielded at most once and only when its request has completed or failed,
\* and when the progress loop has ended every future has been yielded.
C15_ProgressOncePerCompletedBatch ==
    /\ [](pbar = batch_size * Len(completed))
    /\ [](\A i, j \in 1..Len(completed) : completed[i] = completed[j] => i = j)
    /\ [](\A i \in 1..Len(completed) :
             futures[completed[i]].state \in {"done", "failed"})
    /\ [](pc \in {"collect", "shutdown", "returned", "raised"}
             => Len(completed) = Len(futures))
    /\ [][pbar' >= pbar]_vars

\* C15 witness: progress has been advanced for a failed and for a completed
\* request while another request is still in flight.
C15_Witness ==
    /\ pc = "progress"
    /\ Running # {}
    /\ \E i \in 1..Len(completed) : futures[completed[i]].state = "failed"
    /\ \E i \in 1..Len(completed) : futures[completed[i]].state = "done"
    /\ pbar = 2 * batch_size

\* C19 (as claimed): the progress count never exceeds the progress total
\* (the number of input strings) and equals it when all batches have
\* completed.
C19_ProgressWithinTotal ==
    /\ pbar <= Len(corpus)
    /\ (pc \in {"collect", "shutdown", "returned", "raised"}
           => pbar = Len(corpus))

FailedFutures == {b \in 1..Len(futures) : futures[b].state = "failed"}

\* C20: the exception embed_corpus raises is that of the failed request
\* with the lowest submission position.
C20_LowestFailedBatchRaised ==
    pc = "raised" =>
        /\ FailedFutures # {}
        /\ \E b \in FailedFutures :
              /\ \A c \in FailedFutures : b <= c
              /\ error = futures[b].exception
              /\ error.request = b

\* C20 witness: the call raised after several requests failed, a later
\* batch's failure having been seen before that of the lowest failed batch.
C20_Witness ==
    /\ pc = "raised"
    /\ Cardinality(FailedFutures) >= 2
    /\ \E i, j \in 1..Len(completed) :
          /\ i < j
          /\ completed[i] > completed[j]
          /\ futures[completed[i]].state = "failed"
          /\ futures[completed[j]].state = "failed"
          /\ \A c \in FailedFutures : completed[j] <= c

(* ------------------------------------------------------------------ *)
(* Chunk sizes of BatchGenerator                                      *)
(* ------------------------------------------------------------------ *)
ChunkSize(i) == nrows(yielded[i])

\* C13 (as claimed): when to_batches has split a table into k >= 2 chunks,
\* all chunks before the last have the same size and the last chunk is at
\* least as large as each of them.
C13_LastChunkAbsorbsRemainder ==
    (bpc = "done" /\ Len(yielded) >= 2) =>
        \A i \in 1..(Len(yielded) - 1) :
            /\ ChunkSize(i) = ChunkSize(1)
            /\ ChunkSize(Len(yielded)) >= ChunkSize(i)

\* C13 (amended): when to_batches has split an N-row table into k >= 2
\* chunks, the remainder is spread over the leading chunks: the first N % k
\* chunks hold N \div k + 1 rows and the others N \div k rows, so the last
\* chunk is never larger than any other.
C13_LeadingChunksTakeRemainder ==
    (bpc = "done" /\ Len(yielded) >= 2) =>
        LET k == Len(yielded)
            n == nrows(df)
        IN  \A i \in 1..k :
               /\ ChunkSize(i) = (IF i <= n % k THEN n \div k + 1 ELSE n \div k)
               /\ ChunkSize(k) <= ChunkSize(i)

\* C13 witness: an exhausted uneven split into several chunks, the last
\* chunk smaller than the first.
C13_Witness ==
    /\ bpc = "done"
    /\ Len(yielded) >= 2
    /\ ChunkSize(Len(yielded)) < ChunkSize(1)

\* C16: when round(N / batch_size) = k >= 2 (ties to even), to_batches
\* yields exactly k chunks and the sizes of any two of them differ by at
\* most one row.
C16_RoundedCountNearlyEqualChunks ==
    LET k == py_round_div(nrows(df), self_batch_size)
    IN  (bpc = "done" /\ k >= 2) =>
            /\ Len(yielded) = k
            /\ \A i, j \in 1..Len(yielded) : ChunkSize(i) - ChunkSize(j) <= 1

\* C16 witness: an exhausted split whose chunk count came from a tie
\* rounded to the even neighbour, with chunks of two sizes.
C16_Witness ==
    /\ bpc = "done"
    /\ 2 * (nrows(df) % self_batch_size) = self_batch_size
    /\ Len(yielded) >= 2
    /\ \E i, j \in 1..Len(yielded) : ChunkSize(i) # ChunkSize(j)

(* ------------------------------------------------------------------ *)
(* Properties of the upload cells                                     *)
(* ------------------------------------------------------------------ *)

\* The upsert requests into a namespace whose frame holds a row.
UpsertsOf(namespace, row) ==
    { k \in 1..Len(index[namespace]) :
        /\ index[namespace][k].frame.start <= row
        /\ row < index[namespace][k].frame.stop }

UpsertedOnce(namespace, column) ==
    \A r \in 0..(nrows(df) - 1) :
        /\ Cardinality(UpsertsOf(namespace, r)) = 1
        /\ \A k \in UpsertsOf(namespace, r) :
              /\ index[namespace][k].namespace = namespace
              /\ request_pair(index[namespace][k], r) =
                    <<vector_id(r), column_value(column, r)>>

\* C17: when both upload loops have finished, every row's vector_id has
\* been upserted exactly once into namespace 'content' with the row's
\* content_vector and exactly once into namespace 'title' with the row's
\* title_vector, and each namespace holds exactly N vectors (2N in total).
C17_EveryRowUpsertedOncePerNamespace ==
    cell = "stats" =>
        /\ UpsertedOnce("content", "content_vector")
        /\ UpsertedOnce("title", "title_vector")
        /\ vector_count("content") = nrows(df)
        /\ vector_count("title") = nrows(df)
        /\ vector_count("content") + vector_count("title") = 2 * nrows(df)

\* C17 witness: the recorded run, 25000 vectors in each namespace, uploaded
\* in several requests.
C17_Witness ==
    /\ cell = "stats"
    /\ DemoRun
    /\ Len(index["content"]) > 1
    /\ Len(index["title"]) > 1
    /\ vector_count("content") = DatasetRows
    /\ vector_count("title") = DatasetRows

(* ------------------------------------------------------------------ *)
(* Termination of embed_corpus                                        *)
(* ------------------------------------------------------------------ *)

\* Batch b has been submitted and waits in the executor's queue.
Queued(b) == IF b <= Len(futures) THEN futures[b].state = "pending" ELSE FALSE

\* Batch b has been submitted and a worker has taken it.
Taken(b) == IF b <= Len(futures) THEN futures[b].state # "pending" ELSE FALSE

\* C18: under fair scheduling every embed_corpus call eventually returns or
\* raises, and every submitted batch that waits in the queue is eventually
\* taken by a worker.
C18_EventuallyReleased ==
    /\ <>CallerReleased
    /\ \A b \in 1..MaxDocs : Queued(b) ~> Taken(b)

\* C18 witness: the caller was released after a run with more batches than
\* worker threads.
C18_Witness ==
    /\ CallerReleased
    /\ Len(futures) > num_workers
    /\ threads = num_workers

(* ------------------------------------------------------------------ *)
(* Repeated runs of to_batches                                        *)
(* ------------------------------------------------------------------ *)

\* The chunks a namespace's upload loop received, in order.
ChunksUploaded(namespace) ==
    [k \in 1..Len(index[namespace]) |-> index[namespace][k].frame]

====
